---------------------------- MODULE Spec2Model ----------------------------
(***************************************************************************)
(* A model of the compose-db schema compiler: the SQL emitter              *)
(* (src/parser/to-sql.js) and the descriptor emitter                       *)
(* (src/parser/to-lua.js), both run over the same batch of schema          *)
(* documents.                                                              *)
(*                                                                         *)
(* Representation.                                                         *)
(*  - A JavaScript scalar is a record [k, hi, lo, h, s].  k is "undefined",*)
(*    "number" or "string".  A number is hi * Base + lo + h / 2 with       *)
(*    0 <= lo < Base and h \in {0, 1}: the emitters' 32 to 47 bit constants*)
(*    (4294967295, 99999999999999) are kept exactly, and a number that is  *)
(*    not an integer (h = 1) exists.  A string is the sequence s of its    *)
(*    characters, so that the regular expressions of the source are        *)
(*    computed character by character.                                     *)
(*  - An identifier (table, column, database, code name) is a sequence of  *)
(*    characters.  A dotted FK path is the sequence of its segments, i.e.  *)
(*    the result of String.prototype.split('.');  <<>> is an absent path.  *)
(*  - Enumerated tokens of the documents (type, size, ondelete, index type)*)
(*    are TLA+ strings;  Absent stands for a missing token.                *)
(*  - An optional array (a code column's values) is <<>> when absent and   *)
(*    <<list>> when present.                                               *)
(*  - A piece of generated SQL is a sequence of tokens (scalars of kind    *)
(*    "keyword", "number" or "string") in the order sprintf writes them.   *)
(*  - The two emitters are separate processes that share no state: they    *)
(*    are run one after the other (SQL first), which loses no behaviour of *)
(*    either.                                                              *)
(***************************************************************************)
EXTENDS Integers, Sequences, FiniteSets, TLC

\* ------------------------------------------------------------------------
\* JavaScript scalars
\* ------------------------------------------------------------------------

\* The radix of the two-limb representation of a JavaScript number.
Base == 10 * 1000 * 1000

Undef == [k |-> "undefined", hi |-> 0, lo |-> 0, h |-> 0, s |-> <<>>]

\* The number hi * Base + lo.
Big(hi, lo) == [k |-> "number", hi |-> hi, lo |-> lo, h |-> 0, s |-> <<>>]

\* The number i, for an i within TLC's integers.
Num(i) == Big(i \div Base, i % Base)

StrV(chars) == [k |-> "string", hi |-> 0, lo |-> 0, h |-> 0, s |-> chars]

Kw(word) == [k |-> "keyword", hi |-> 0, lo |-> 0, h |-> 0, s |-> <<word>>]

\* -n, for an integer n.
Neg(n) ==
    IF n.lo = 0 THEN Big(-n.hi, 0) ELSE Big(-n.hi - 1, Base - n.lo)

\* n + 1 and n - 1, for an integer n.
Succ(n) ==
    IF n.lo = Base - 1 THEN Big(n.hi + 1, 0) ELSE Big(n.hi, n.lo + 1)

Pred(n) ==
    IF n.lo = 0 THEN Big(n.hi - 1, Base - 1) ELSE Big(n.hi, n.lo - 1)

\* n + 0.5, for an integer n.
PlusHalf(n) == [n EXCEPT !.h = 1]

IsNumber(v) == v.k = "number"

\* a < b as JavaScript evaluates it on two numbers; a comparison with
\* undefined or with a non-numeric string is false (NaN).
JsLt(a, b) ==
    /\ IsNumber(a)
    /\ IsNumber(b)
    /\ \/ a.hi < b.hi
       \/ a.hi = b.hi /\ a.lo < b.lo
       \/ a.hi = b.hi /\ a.lo = b.lo /\ a.h < b.h

JsGt(a, b) == JsLt(b, a)

\* a <= b on two numbers (used by the properties, not by the emitters).
NumLe(a, b) == IsNumber(a) /\ IsNumber(b) /\ ~JsLt(b, a)

\* Number.MAX_SAFE_INTEGER = 2^53 - 1 = 9007199254740991.
MAX_SAFE_INTEGER == Big(900719925, 4740991)

\* Number.isSafeInteger(v)
IsSafeInteger(v) ==
    /\ IsNumber(v)
    /\ v.h = 0
    /\ ~JsGt(v, MAX_SAFE_INTEGER)
    /\ ~JsLt(v, Neg(MAX_SAFE_INTEGER))

\* v != undefined
Defined(v) == v.k # "undefined"

\* A missing enumerated token (size, ondelete).
Absent == "undefined"

\* ------------------------------------------------------------------------
\* Character classes of the regular expressions
\* ------------------------------------------------------------------------

LowerChars ==
    {"a", "b", "c", "d", "e", "f", "g", "h", "i", "j", "k", "l", "m",
     "n", "o", "p", "q", "r", "s", "t", "u", "v", "w", "x", "y", "z"}

UpperChars ==
    {"A", "B", "C", "D", "E", "F", "G", "H", "I", "J", "K", "L", "M",
     "N", "O", "P", "Q", "R", "S", "T", "U", "V", "W", "X", "Y", "Z"}

DigitChars == {"0", "1", "2", "3", "4", "5", "6", "7", "8", "9"}

HexChars == DigitChars \cup {"a", "b", "c", "d", "e", "f", "A", "B", "C", "D", "E", "F"}

AllIn(chars, class) == \A i \in 1..Len(chars) : chars[i] \in class

\* /^[a-z_]+$/
TableNameOk(name) == Len(name) >= 1 /\ AllIn(name, LowerChars \cup {"_"})

\* /^[a-z][a-zA-Z0-9]+$/
ColumnNameOk(name) ==
    /\ Len(name) >= 2
    /\ name[1] \in LowerChars
    /\ AllIn(Tail(name), LowerChars \cup UpperChars \cup DigitChars)

\* /^[A-Z0-9_]+$/
CodeNameOk(name) ==
    Len(name) >= 1 /\ AllIn(name, UpperChars \cup DigitChars \cup {"_"})

\* /^0x[0-9a-fA-F]+$/ on a default value (a number converts to its decimal
\* text, which never starts with "0x").
HexLiteralOk(v) ==
    /\ v.k = "string"
    /\ Len(v.s) >= 3
    /\ v.s[1] = "0"
    /\ v.s[2] = "x"
    /\ AllIn(SubSeq(v.s, 3, Len(v.s)), HexChars)

\* The two spellings of the empty string literal: '' and "".
EmptyLiteralSingle == StrV(<<"'", "'">>)
EmptyLiteralDouble == StrV(<<"\"", "\"">>)

\* ------------------------------------------------------------------------
\* to-sql.js: the absolute bounds
\* ------------------------------------------------------------------------

INTEGER_SIZES == {"TINYINT", "SMALLINT", "MEDIUMINT", "INT", "BIGINT"}

INTEGER_MIN ==
    [TINYINT   |-> Num(-128),
     SMALLINT  |-> Num(-32768),
     MEDIUMINT |-> Num(-8388608),
     INT       |-> Neg(Big(214, 7483648)),
     BIGINT    |-> Neg(Big(9999999, 9999999))]

INTEGER_MAX_UNSIGNED ==
    [TINYINT   |-> Num(255),
     SMALLINT  |-> Num(65535),
     MEDIUMINT |-> Num(16777215),
     INT       |-> Big(429, 4967295),
     BIGINT    |-> Big(9999999, 9999999)]

INTEGER_MAX_SIGNED ==
    [TINYINT   |-> Num(127),
     SMALLINT  |-> Num(32767),
     MEDIUMINT |-> Num(8388607),
     INT       |-> Big(214, 7483647),
     BIGINT    |-> Big(9999999, 9999999)]

\* let absMin = isUnsigned ? 0 : INTEGER_MIN[size]
AbsMin(size, isUnsigned) == IF isUnsigned THEN Num(0) ELSE INTEGER_MIN[size]

\* let absMax = isUnsigned ? INTEGER_MAX_UNSIGNED[size] : INTEGER_MAX_SIGNED[size]
AbsMax(size, isUnsigned) ==
    IF isUnsigned THEN INTEGER_MAX_UNSIGNED[size] ELSE INTEGER_MAX_SIGNED[size]

\* ------------------------------------------------------------------------
\* to-sql.js: one rule per column kind.  A rule returns [err, sql]: the
\* kind of the error it throws ("none" when it returns) and the clause.
\* ------------------------------------------------------------------------

Throw(kind) == [err |-> kind, sql |-> <<>>]

Return(tokens) == [err |-> "none", sql |-> tokens]

NullTok(nullable) == IF nullable THEN Kw("NULL") ELSE Kw("NOT NULL")

\* defaultValue != undefined ? ("DEFAULT " + defaultValue) : ""
DefaultToks(v) == IF Defined(v) THEN <<Kw("DEFAULT"), v>> ELSE <<>>

processIntegerColumn(col) ==
    IF col.size \notin INTEGER_SIZES THEN Throw("TypeError")
    ELSE
    LET absMin == AbsMin(col.size, col.unsigned)
        absMax == AbsMax(col.size, col.unsigned)
        minimum == col.minValue
        maximum == col.maxValue
        defaultValue == col.defaultValue
    IN  IF Defined(minimum) /\ JsLt(minimum, absMin) THEN Throw("RangeError")
        ELSE IF Defined(maximum) /\ JsGt(maximum, absMax) THEN Throw("RangeError")
        ELSE IF Defined(defaultValue) /\ ~IsSafeInteger(defaultValue)
             THEN Throw("TypeError")
        ELSE IF Defined(defaultValue)
                /\ (JsLt(defaultValue, absMin) \/ JsGt(defaultValue, absMax))
             THEN Throw("RangeError")
        ELSE Return(<<Kw(col.size)>>
                    \o (IF col.unsigned THEN <<Kw("UNSIGNED")>> ELSE <<>>)
                    \o <<NullTok(col.nullable)>>
                    \o DefaultToks(defaultValue))

processSerialColumn(col) ==
    IF col.size \notin INTEGER_SIZES THEN Throw("TypeError")
    ELSE Return(<<Kw(col.size), Kw("UNSIGNED"), Kw("NOT NULL"), Kw("AUTO_INCREMENT")>>)

processTimestampColumn(col) ==
    LET defaultValue == col.defaultValue
    IN  IF Defined(defaultValue) /\ ~col.unsigned THEN Throw("Error")
        ELSE IF Defined(defaultValue) /\ defaultValue # Num(0) THEN Throw("RangeError")
        ELSE Return(<<Kw("BIGINT"), Kw("UNSIGNED"), Kw("NOT NULL")>>
                    \o DefaultToks(defaultValue))

processStringColumn(col) ==
    LET minimumLength == col.minLength
        maximumLength == col.maxLength
        defaultValue == col.defaultValue
    IN  IF ~IsSafeInteger(maximumLength) THEN Throw("TypeError")
        ELSE IF Defined(minimumLength) /\ ~IsSafeInteger(minimumLength)
             THEN Throw("TypeError")
        ELSE IF Defined(minimumLength)
                /\ (JsLt(minimumLength, Num(1)) \/ JsGt(minimumLength, maximumLength))
             THEN Throw("RangeError")
        ELSE IF Defined(defaultValue)
                /\ defaultValue # EmptyLiteralSingle
                /\ defaultValue # EmptyLiteralDouble
             THEN Throw("Error")
        ELSE Return(<<Kw("VARCHAR"), maximumLength, NullTok(col.nullable)>>
                    \o (IF Defined(defaultValue)
                        THEN <<Kw("DEFAULT"), EmptyLiteralSingle>> ELSE <<>>))

processBinaryColumn(col) ==
    LET maximumSize == col.maxSize
        defaultValue == col.defaultValue
        \* minimumSize after the else branch that sets it to 0
        minimumSize == IF Defined(col.minSize) THEN col.minSize ELSE Num(0)
        \* defaultValue after '' and "" are both rewritten to ''
        rendered == IF HexLiteralOk(defaultValue) THEN defaultValue
                    ELSE EmptyLiteralSingle
    IN  IF ~IsSafeInteger(maximumSize) THEN Throw("TypeError")
        ELSE IF Defined(col.minSize) /\ ~IsSafeInteger(col.minSize)
             THEN Throw("TypeError")
        ELSE IF Defined(col.minSize)
                /\ (JsLt(col.minSize, Num(1)) \/ JsGt(col.minSize, maximumSize))
             THEN Throw("RangeError")
        ELSE IF Defined(defaultValue)
                /\ ~HexLiteralOk(defaultValue)
                /\ defaultValue # EmptyLiteralSingle
                /\ defaultValue # EmptyLiteralDouble
             THEN Throw("Error")
        ELSE Return(<<(IF minimumSize = maximumSize THEN Kw("BINARY")
                       ELSE Kw("VARBINARY")),
                      maximumSize, NullTok(col.nullable)>>
                    \o (IF Defined(defaultValue)
                        THEN <<Kw("DEFAULT"), rendered>> ELSE <<>>))

processBooleanColumn(col) ==
    LET defaultValue == col.defaultValue
    IN  IF Defined(defaultValue) /\ defaultValue # Num(0) /\ defaultValue # Num(1)
        THEN Throw("TypeError")
        ELSE Return(<<Kw("TINYINT(1)"), Kw("UNSIGNED"), NullTok(col.nullable)>>
                    \o DefaultToks(defaultValue))


\* The index of the first TRUE of a sequence of Booleans, 0 when there is
\* none: Array.prototype.find, and the first iteration of a forEach that
\* throws.
FirstTrue(flags) ==
    IF \E i \in 1..Len(flags) : flags[i]
    THEN CHOOSE i \in 1..Len(flags) : flags[i] /\ \A j \in 1..(i - 1) : ~flags[j]
    ELSE 0

\* seq.find(x => x.name == name), as an index into seq.
IndexByName(seq, name) == FirstTrue([i \in 1..Len(seq) |-> seq[i].name = name])

\* seq.find(x => x.type == type), as an index into seq.
IndexByType(seq, type) == FirstTrue([i \in 1..Len(seq) |-> seq[i].type = type])

\* The concatenation of a sequence of sequences.
RECURSIVE ConcatAll(_)
ConcatAll(seqs) ==
    IF seqs = <<>> THEN <<>> ELSE Head(seqs) \o ConcatAll(Tail(seqs))

\* What the forEach callback of processCodeColumn throws on values[i], given
\* the codes and names of the values before it.
CodeValueError(list, i) ==
    LET code == list[i].code
        name == list[i].value
    IN  IF ~IsSafeInteger(code) \/ JsLt(code, Num(0)) THEN "TypeError"
        ELSE IF ~CodeNameOk(name) THEN "Error"
        ELSE IF \E j \in 1..(i - 1) : list[j].code = code THEN "ReferenceError"
        ELSE IF \E j \in 1..(i - 1) : list[j].value = name THEN "ReferenceError"
        ELSE "none"

\* highestCode after the loop: the largest code, 0 at least.
HighestCode(list) ==
    IF \E i \in 1..Len(list) : JsGt(list[i].code, Num(0))
    THEN list[CHOOSE i \in 1..Len(list) :
                  \A j \in 1..Len(list) : ~JsGt(list[j].code, list[i].code)].code
    ELSE Num(0)

\* A variant of processCodeColumn whose largest code allowed is 254.
processCodeColumnBelow255(col) ==
    IF col.values = <<>> THEN Throw("TypeError")
    ELSE
    LET list == col.values[1]
        bad == CHOOSE i \in 0..Len(list) :
                   /\ i # 0 => CodeValueError(list, i) # "none"
                   /\ \A j \in 1..(IF i = 0 THEN Len(list) ELSE i - 1) :
                          CodeValueError(list, j) = "none"
        defaultValue == col.defaultValue
    IN  IF Len(list) = 0 THEN Throw("Error")
        ELSE IF bad # 0 THEN Throw(CodeValueError(list, bad))
        ELSE IF JsGt(HighestCode(list), Num(254)) THEN Throw("RangeError")
        ELSE IF Defined(defaultValue)
                /\ ~\E i \in 1..Len(list) : list[i].code = defaultValue
             THEN Throw("ReferenceError")
        ELSE Return(<<Kw("TINYINT"), Kw("UNSIGNED"), NullTok(col.nullable)>>
                    \o DefaultToks(defaultValue))

processCodeColumn(col) ==
    IF col.values = <<>> THEN Throw("TypeError")  \* col.values is undefined
    ELSE
    LET list == col.values[1]
        bad == CHOOSE i \in 0..Len(list) :
                   /\ i # 0 => CodeValueError(list, i) # "none"
                   /\ \A j \in 1..(IF i = 0 THEN Len(list) ELSE i - 1) :
                          CodeValueError(list, j) = "none"
        defaultValue == col.defaultValue
    IN  IF Len(list) = 0 THEN Throw("Error")
        ELSE IF bad # 0 THEN Throw(CodeValueError(list, bad))
        ELSE IF JsGt(HighestCode(list), Num(255)) THEN Throw("RangeError")
        ELSE IF Defined(defaultValue)
                /\ ~\E i \in 1..Len(list) : list[i].code = defaultValue
             THEN Throw("ReferenceError")
        ELSE Return(<<Kw("TINYINT"), Kw("UNSIGNED"), NullTok(col.nullable)>>
                    \o DefaultToks(defaultValue))

\* ------------------------------------------------------------------------
\* to-sql.js: processTable
\* ------------------------------------------------------------------------

IsKw(tok, word) == tok = Kw(word)

\* clause.replace("AUTO_INCREMENT", ""): the first occurrence goes.
StripAutoIncrement(toks) ==
    LET i == FirstTrue([k \in 1..Len(toks) |-> IsKw(toks[k], "AUTO_INCREMENT")])
    IN  IF i = 0 THEN toks
        ELSE SubSeq(toks, 1, i - 1) \o SubSeq(toks, i + 1, Len(toks))

\* clause.replace(/DEFAULT .*$/, ""): everything from the first DEFAULT goes.
StripDefault(toks) ==
    LET i == FirstTrue([k \in 1..Len(toks) |-> IsKw(toks[k], "DEFAULT")])
    IN  IF i = 0 THEN toks ELSE SubSeq(toks, 1, i - 1)

\* clause.replace('NOT NULL', 'NULL'): the first occurrence is rewritten.
ReplaceNotNull(toks) ==
    LET i == FirstTrue([k \in 1..Len(toks) |-> IsKw(toks[k], "NOT NULL")])
    IN  IF i = 0 THEN toks ELSE [toks EXCEPT ![i] = Kw("NULL")]

NoIndex ==
    [kind |-> Absent, columns |-> <<>>, refDb |-> <<>>, refTable |-> <<>>,
     refColumn |-> <<>>, ondelete |-> Absent]

\* The result of one iteration over table.columns: the error thrown, the
\* column's clause, and the FOREIGN KEY clause pushed to the index list
\* (<<>> when none is).
ColThrow(kind) == [err |-> kind, sql |-> <<>>, idx |-> <<>>]

ColReturn(res, idx) == [err |-> res.err, sql |-> res.sql, idx |-> idx]

\* case "FK" of processTable, from the switch over targetCol.type on:
\* targetCol is column tc of table tt of database td, and base the result
\* of the rule of targetCol's kind.
processFKTarget(col, d, databases, td, tt, targetCol, base) ==
    IF base.err # "none" THEN ColThrow(base.err)
    ELSE IF Defined(col.defaultValue) /\ ~IsSafeInteger(col.defaultValue)
         THEN ColThrow("TypeError")
    ELSE ColReturn(
             Return((IF col.nullable
                     THEN ReplaceNotNull(StripDefault(StripAutoIncrement(base.sql)))
                     ELSE StripDefault(StripAutoIncrement(base.sql)))
                    \o DefaultToks(col.defaultValue)),
             IF col.ondelete # Absent /\ col.ondelete # "NO ACTION"
             THEN <<[kind |-> "FOREIGN KEY",
                     columns |-> <<col.name>>,
                     refDb |-> IF td = d THEN <<>> ELSE databases[td].name,
                     refTable |-> databases[td].tables[tt].name,
                     refColumn |-> targetCol.name,
                     ondelete |-> col.ondelete]>>
             ELSE <<>>)

\* case "FK" of processTable, from the lookup of the column on: tc is the
\* index of the column found in table tt of database td, 0 if none is.
processFKLookup(col, d, databases, td, tt, tc) ==
    IF tc = 0 THEN ColThrow("ReferenceError")
    ELSE IF databases[td].tables[tt].columns[tc].nullable THEN ColThrow("TypeError")
    ELSE IF databases[td].tables[tt].columns[tc].type = "integer"
         THEN processFKTarget(col, d, databases, td, tt,
                  databases[td].tables[tt].columns[tc],
                  processIntegerColumn(databases[td].tables[tt].columns[tc]))
    ELSE IF databases[td].tables[tt].columns[tc].type = "serial"
         THEN processFKTarget(col, d, databases, td, tt,
                  databases[td].tables[tt].columns[tc],
                  processSerialColumn(databases[td].tables[tt].columns[tc]))
    ELSE ColThrow("TypeError")

\* case "FK" of processTable, from the lookup of the table on: tt is the
\* index of the table found in database td, 0 if none is.
processFKTable(col, d, databases, td, tt, targetColName) ==
    IF tt = 0 THEN ColThrow("ReferenceError")
    ELSE processFKLookup(col, d, databases, td, tt,
             IndexByName(databases[td].tables[tt].columns, targetColName))

\* case "FK" of processTable, from the lookup of the database on: td is
\* the database itself when the path names none, else the index of the
\* one found by name, 0 if none is.
processFKDatabase(col, d, databases, td, targetTableName, targetColName) ==
    IF td = 0 THEN ColThrow("ReferenceError")
    ELSE processFKTable(col, d, databases, td,
             IndexByName(databases[td].tables, targetTableName), targetColName)

\* case "FK" of processTable, for a column col of database d (an index into
\* databases; "targetDatabase == database" compares the two objects).  The
\* segments of the path are popped from its end.
processFKColumn(col, d, databases) ==
    IF col.column = <<>> THEN ColThrow("TypeError")  \* undefined.split
    ELSE IF col.column[Len(col.column)] = <<>> THEN ColThrow("ReferenceError")
    ELSE IF Len(col.column) < 2 THEN ColThrow("ReferenceError")
    ELSE IF col.column[Len(col.column) - 1] = <<>> THEN ColThrow("ReferenceError")
    ELSE processFKDatabase(col, d, databases,
             IF Len(col.column) >= 3
             THEN IndexByName(databases, col.column[Len(col.column) - 2])
             ELSE d,
             col.column[Len(col.column) - 1],
             col.column[Len(col.column)])

\* One iteration of table.columns.forEach in processTable.
processColumn(col, d, databases) ==
    IF ~ColumnNameOk(col.name) THEN ColThrow("Error")
    ELSE CASE col.type = "FK" -> processFKColumn(col, d, databases)
           [] col.type = "integer" -> ColReturn(processIntegerColumn(col), <<>>)
           [] col.type = "serial" -> ColReturn(processSerialColumn(col), <<>>)
           [] col.type = "timestamp" -> ColReturn(processTimestampColumn(col), <<>>)
           [] col.type = "string" -> ColReturn(processStringColumn(col), <<>>)
           [] col.type = "binary" -> ColReturn(processBinaryColumn(col), <<>>)
           [] col.type = "boolean" -> ColReturn(processBooleanColumn(col), <<>>)
           [] col.type = "code" -> ColReturn(processCodeColumn(col), <<>>)
           [] OTHER -> ColThrow("TypeError")

IndexKinds == [primary |-> "PRIMARY KEY", unique |-> "UNIQUE", index |-> "INDEX"]

\* The end of processTable: results are the results of the iterations over
\* table.columns and badCol the first that throws, 0 if none does.
processTableColumns(table, results, badCol) ==
    IF badCol # 0 THEN Throw(results[badCol].err)
    ELSE Return(<<[stmt |-> "CREATE TABLE", name |-> table.name,
                   cols |-> [i \in 1..Len(results) |->
                               [name |-> table.columns[i].name,
                                clause |-> results[i].sql]],
                   idxes |-> [i \in 1..Len(table.indexes) |->
                                [NoIndex EXCEPT
                                   !.kind = IndexKinds[table.indexes[i].type],
                                   !.columns = table.indexes[i].columns]]
                             \o ConcatAll([i \in 1..Len(results) |->
                                              results[i].idx])]>>)

\* The loop over table.columns of processTable.
processTableBody(table, results) ==
    processTableColumns(table, results,
        FirstTrue([k \in 1..Len(results) |-> results[k].err # "none"]))

\* processTable(table, database, databases): [err, sql], sql being the one
\* CREATE TABLE statement, <<>> when the function throws.
processTable(table, d, databases) ==
    IF ~TableNameOk(table.name) THEN Throw("Error")
    ELSE IF table.type # "fixed" THEN Throw("TypeError")
    ELSE IF FirstTrue([k \in 1..Len(table.indexes) |->
                          table.indexes[k].type \notin DOMAIN IndexKinds]) # 0
         THEN Throw("Error")
    ELSE processTableBody(table,
             [i \in 1..Len(table.columns) |->
                 processColumn(table.columns[i], d, databases)])

\* ------------------------------------------------------------------------
\* to-lua.js: the descriptor emitter.  luaCode is the sequence of the Lua
\* statements written so far.  A statement is [op, at, key, val, obj]:
\*   "new"     at = {}
\*   "set"     at.key = val
\*   "column"  at = objectToLua(column)       (obj is the object written)
\*   "parent"  at._parentTable = the table of at
\*   "name"    at.<val.s> = key's code        (a code column's NAME = code)
\*   "code"    at[val] = "<key>"              (a code column's [code] = NAME)
\*   "codes"   at.codes = Set:new({...})      (obj is the list of the codes)
\*   "freeze"  setmetatable(at, FrozenTableMetatable)
\* at is [db, table, column]: db is "Schema" (the root), "core" or "inst";
\* table and column are <<>> above the table or column level.
\* luamin.minify rewrites the text of these statements and keeps what they
\* do; it is an external library and the statements stand for its output.
\* ------------------------------------------------------------------------

At(db, table, column) == [db |-> db, table |-> table, column |-> column]

Root == At("Schema", <<>>, <<>>)

Stmt(op, at, key, val, obj) ==
    [op |-> op, at |-> at, key |-> key, val |-> val, obj |-> obj]

\* value.replace(/\\/g, "\\\\").replace(/"/g, "\\\"")
RECURSIVE EscapeChars(_)
EscapeChars(chars) ==
    IF chars = <<>> THEN <<>>
    ELSE (IF Head(chars) = "\\" THEN <<"\\", "\\">>
          ELSE IF Head(chars) = "\"" THEN <<"\\", "\"">>
          ELSE <<Head(chars)>>) \o EscapeChars(Tail(chars))

\* The Lua string literal objectToLua writes for a string.
LuaString(chars) == StrV(<<"\"">> \o EscapeChars(chars) \o <<"\"">>)

\* The literal objectToLua writes for a scalar: a number as it is, a string
\* quoted and escaped.
LuaScalar(v) == IF v.k = "string" THEN LuaString(v.s) ELSE v

\* objectToLua(column): [err, obj].  The object holds a key for every field
\* of the column that is present.  A nested value (the values array, were it
\* still there) throws.  The tokens type, size, ondelete and _objectType
\* are kept as they are.
objectToLua(column) ==
    IF column.values # <<>> THEN [err |-> "SyntaxError", obj |-> <<>>]
    ELSE [err |-> "none",
          obj |-> [column EXCEPT
                     !.name = LuaString(column.name),
                     !.defaultValue = LuaScalar(column.defaultValue),
                     !.minValue = LuaScalar(column.minValue),
                     !.maxValue = LuaScalar(column.maxValue),
                     !.minLength = LuaScalar(column.minLength),
                     !.maxLength = LuaScalar(column.maxLength),
                     !.minSize = LuaScalar(column.minSize),
                     !.maxSize = LuaScalar(column.maxSize)]]

LuaThrow(kind) == [err |-> kind, col |-> <<>>]

LuaOk(column) == [err |-> "none", col |-> column]

\* The FK branch, from db.tables.find(...) on: tt is the index of the table
\* found in database db, 0 if none is, and colName the column looked for
\* (<<>> when the path has one segment: fkColName is undefined and no
\* column has that name).
resolveFKColumn(column, databases, db, tt, colName) ==
    IF tt = 0 THEN LuaThrow("TypeError")                     \* (undefined).columns
    ELSE IF colName = <<>>
            \/ IndexByName(databases[db].tables[tt].columns, colName[1]) = 0
         THEN LuaThrow("ReferenceError")
    ELSE LuaOk([databases[db].tables[tt].columns[
                    IndexByName(databases[db].tables[tt].columns, colName[1])]
                EXCEPT !.name = column.name,
                       !.nullable = column.nullable,
                       !.values = <<>>])

\* The FK branch, from the choice of db on: db indexes the database chosen,
\* 0 when it is undefined.
resolveFKTable(column, databases, db, fkTable, colName) ==
    IF db = 0 THEN LuaThrow("TypeError")                     \* (undefined).tables
    ELSE resolveFKColumn(column, databases, db,
             IndexByName(databases[db].tables, fkTable), colName)

\* The FK branch of writeTable's column callback: the column that replaces
\* an FK declaration.  type is "core" or "inst"; core and inst index the
\* databases found by type (0 when there is none).  A path of three
\* segments is database.table.column; of any other path the first two
\* segments are taken as table.column.
resolveFK(column, type, core, inst, databases) ==
    IF column.column = <<>> THEN LuaThrow("TypeError")       \* undefined.split
    ELSE IF Len(column.column) = 3
    THEN IF core = 0 THEN LuaThrow("TypeError")              \* coreDatabase.name
         ELSE resolveFKTable(column, databases,
                  IF column.column[1] = databases[core].name THEN core ELSE inst,
                  column.column[2], <<column.column[3]>>)
    ELSE resolveFKTable(column, databases,
             IF type = "core" THEN core ELSE inst,
             column.column[1],
             IF Len(column.column) >= 2 THEN <<column.column[2]>> ELSE <<>>)

\* A variant of DefaultMinValue that looks at unsigned before autoIncrement.
DefaultMinValueUnsignedFirst(column) ==
    IF column.unsigned THEN <<Num(0)>>
    ELSE IF column.autoIncrement THEN <<Num(1)>>
    ELSE CASE column.size = "TINYINT" -> <<Num(-128)>>
           [] column.size = "SMALLINT" -> <<Num(-32768)>>
           [] column.size = "MEDIUMINT" -> <<Num(-8388608)>>
           [] column.size = "INT" -> <<Neg(Big(214, 7483648))>>
           [] column.size = "BIGINT" -> <<Neg(Big(9999999, 9999999))>>
           [] OTHER -> <<>>

\* column.minValue, when the column leaves it undefined.
DefaultMinValue(column) ==
    IF column.autoIncrement THEN <<Num(1)>>
    ELSE IF column.unsigned THEN <<Num(0)>>
    ELSE CASE column.size = "TINYINT" -> <<Num(-128)>>
           [] column.size = "SMALLINT" -> <<Num(-32768)>>
           [] column.size = "MEDIUMINT" -> <<Num(-8388608)>>
           [] column.size = "INT" -> <<Neg(Big(214, 7483648))>>
           [] column.size = "BIGINT" -> <<Neg(Big(9999999, 9999999))>>
           [] OTHER -> <<>>

\* column.maxValue, when the column leaves it undefined.
DefaultMaxValue(column) ==
    CASE column.size = "TINYINT" ->
             <<IF column.unsigned THEN Num(255) ELSE Num(127)>>
      [] column.size = "SMALLINT" ->
             <<IF column.unsigned THEN Num(65535) ELSE Num(32767)>>
      [] column.size = "MEDIUMINT" ->
             <<IF column.unsigned THEN Num(16777215) ELSE Num(8388607)>>
      [] column.size = "INT" ->
             <<IF column.unsigned THEN Big(429, 4967295) ELSE Big(214, 7483647)>>
      [] column.size = "BIGINT" ->
             <<IF column.unsigned THEN Big(9999999, 9999999)
               ELSE Big(9999999, 9999999)>>
      [] OTHER -> <<>>

\* column.maxValue of a serial column.
SerialMaxValue(column) ==
    CASE column.size = "TINYINT" -> <<Num(255)>>
      [] column.size = "SMALLINT" -> <<Num(65535)>>
      [] column.size = "MEDIUMINT" -> <<Num(16777215)>>
      [] column.size = "INT" -> <<Big(429, 4967295)>>
      [] column.size = "BIGINT" -> <<Big(9999999, 9999999)>>
      [] OTHER -> <<>>

\* The integer and serial branches of the column callback: the bounds are
\* assigned to the column; an unrecognised size throws where a switch over
\* it is reached.
resolveBounds(column) ==
    IF column.type = "integer" THEN
        LET needMin == ~Defined(column.minValue)
            needMax == ~Defined(column.maxValue)
            min == DefaultMinValue(column)
            max == DefaultMaxValue(column)
        IN  IF needMin /\ min = <<>> THEN LuaThrow("SyntaxError")
            ELSE IF needMax /\ max = <<>> THEN LuaThrow("SyntaxError")
            ELSE LuaOk([column EXCEPT
                          !.minValue = IF needMin THEN min[1] ELSE @,
                          !.maxValue = IF needMax THEN max[1] ELSE @])
    ELSE IF column.type = "serial" THEN
        LET max == SerialMaxValue(column)
        IN  IF max = <<>> THEN LuaThrow("SyntaxError")
            ELSE LuaOk([column EXCEPT !.minValue = Num(1), !.maxValue = max[1]])
    ELSE LuaOk(column)

\* The outcome r of an iteration, with the statements before it.
AppendStmts(stmts, r) == [r EXCEPT !.stmts = stmts \o @]

\* codeValuesLua for a code column that still has its values.
CodeValuesLua(at, list) ==
    ConcatAll([i \in 1..Len(list) |->
                  <<Stmt("name", at, list[i].value, list[i].code, <<>>),
                    Stmt("code", at, list[i].value, list[i].code, <<>>)>>])
    \o <<Stmt("codes", at, <<>>, Undef, [i \in 1..Len(list) |-> list[i].code])>>

\* The end of the column callback: tagged is the column with its bounds and
\* _objectType, lua the result of objectToLua on it once a code column's
\* values are deleted, isFK whether the column was declared as an FK.
\* [err, databases, stmts]: databases is the document after the iteration
\* (a column that is not an FK is changed in place: it gains its bounds and
\* _objectType and loses its values).
writeColumnObject(at, di, ti, ci, databases, isFK, tagged, lua) ==
    IF lua.err # "none"
    THEN [err |-> lua.err, databases |-> databases, stmts |-> <<>>]
    ELSE [err |-> "none",
          databases |-> IF isFK THEN databases
                        ELSE [databases EXCEPT ![di].tables[ti].columns[ci] =
                                 [tagged EXCEPT !.values = <<>>]],
          stmts |-> <<Stmt("column", at, <<>>, Undef, lua.obj),
                      Stmt("parent", at, <<>>, Undef, <<>>)>>
                    \o (IF tagged.type = "code" /\ tagged.values # <<>>
                        THEN CodeValuesLua(at, tagged.values[1])
                        ELSE <<>>)
                    \o <<Stmt("freeze", at, <<>>, Undef, <<>>)>>]

\* The column callback from "delete column.comments" on: r is the column
\* after the FK and integer or serial branches, or the error they threw.
writeColumnResolved(type, di, ti, ci, databases, isFK, r) ==
    IF r.err # "none"
    THEN [err |-> r.err, databases |-> databases, stmts |-> <<>>]
    ELSE writeColumnObject(
             At(type, databases[di].tables[ti].name, r.col.name),
             di, ti, ci, databases, isFK,
             [r.col EXCEPT !.objectType = "column"],
             objectToLua([r.col EXCEPT
                            !.objectType = "column",
                            !.values = IF r.col.type = "code" THEN <<>> ELSE @]))

\* The integer and serial branches applied to the outcome of the FK branch.
resolveColumn(fk) == IF fk.err # "none" THEN fk ELSE resolveBounds(fk.col)

\* One iteration of table.columns.forEach in writeTable, for column ci of
\* table ti of database di: [err, databases, stmts].
writeColumn(type, di, ti, ci, core, inst, databases) ==
    writeColumnResolved(type, di, ti, ci, databases,
        databases[di].tables[ti].columns[ci].type = "FK",
        resolveColumn(IF databases[di].tables[ti].columns[ci].type = "FK"
                      THEN resolveFK(databases[di].tables[ti].columns[ci],
                                     type, core, inst, databases)
                      ELSE LuaOk(databases[di].tables[ti].columns[ci])))

\* The loop over table.columns, from column ci on; acc is [err, databases,
\* stmts] so far.
RECURSIVE writeColumns(_, _, _, _, _, _, _)
writeColumns(ci, type, di, ti, core, inst, acc) ==
    IF acc.err # "none" \/ ci > Len(acc.databases[di].tables[ti].columns) THEN acc
    ELSE writeColumns(ci + 1, type, di, ti, core, inst,
             AppendStmts(acc.stmts,
                         writeColumn(type, di, ti, ci, core, inst, acc.databases)))

\* The last statement of writeTable, if the loop over the columns ends.
writeTableEnd(at, r) ==
    IF r.err # "none" THEN r
    ELSE [r EXCEPT !.stmts = @ \o <<Stmt("freeze", at, <<>>, Undef, <<>>)>>]

\* The statements of writeTable before its loop.
writeTableHead(at, name) ==
    <<Stmt("new", at, <<>>, Undef, <<>>),
      Stmt("set", at, "_objectType", Kw("table"), <<>>),
      Stmt("set", at, "_objectName", StrV(name), <<>>)>>

\* writeTable(type, table) for table ti of the database of that type:
\* [err, databases, stmts].
writeTable(type, ti, core, inst, databases) ==
    writeTableEnd(
        At(type, databases[IF type = "core" THEN core ELSE inst].tables[ti].name,
           <<>>),
        writeColumns(1, type, IF type = "core" THEN core ELSE inst, ti, core, inst,
            [err |-> "none", databases |-> databases,
             stmts |-> writeTableHead(
                 At(type,
                    databases[IF type = "core" THEN core ELSE inst].tables[ti].name,
                    <<>>),
                 databases[IF type = "core" THEN core ELSE inst].tables[ti].name)]))

\* ------------------------------------------------------------------------
\* The schema documents the emitters are run on
\* ------------------------------------------------------------------------

\* A column with no field set: every document column is this with some
\* fields given.
NoColumn ==
    [name |-> <<>>, type |-> Absent, nullable |-> FALSE, defaultValue |-> Undef,
     size |-> Absent, unsigned |-> FALSE, autoIncrement |-> FALSE,
     minValue |-> Undef, maxValue |-> Undef, column |-> <<>>,
     ondelete |-> Absent, values |-> <<>>, minLength |-> Undef,
     maxLength |-> Undef, minSize |-> Undef, maxSize |-> Undef,
     objectType |-> Absent]

IdName == <<"i", "d">>
RefName == <<"r", "e", "f">>
TableA == <<"t", "_", "a">>
TableB == <<"t", "_", "b">>
CoreDbName == <<"a", "p", "p">>
InstDbName == <<"t", "n", "t">>
BogusName == <<"n", "o", "n", "e">>

PrimaryIndex == [type |-> "primary", columns |-> <<IdName>>]

MkTable(name, columns) ==
    [name |-> name, type |-> "fixed", columns |-> columns,
     indexes |-> <<PrimaryIndex>>]

MkDb(name, type, tables) == [name |-> name, type |-> type, tables |-> tables]

\* The largest number of values of a code column.
MaxValues == 2

\* The largest number of files of a batch, of databases of a file and of
\* tables of a database in the batches that vary the shape of the input.
MaxFiles == 2
MaxDbs == 2
MaxTables == 2

\* minValue, maxValue and defaultValue of the integer columns tried: absent,
\* and the absolute bounds of the size and their neighbours.
BoundCandidates(size, unsigned) ==
    {Undef, Pred(AbsMin(size, unsigned)), AbsMin(size, unsigned),
     AbsMax(size, unsigned), Succ(AbsMax(size, unsigned))}

IntegerColumns ==
    { [NoColumn EXCEPT !.name = IdName, !.type = "integer", !.size = p[1],
                       !.unsigned = p[2], !.autoIncrement = p[3],
                       !.minValue = p[4], !.maxValue = p[5],
                       !.defaultValue = p[6]] :
        p \in UNION { {size} \X {u} \X BOOLEAN
                         \X BoundCandidates(size, u) \X BoundCandidates(size, u)
                         \X (BoundCandidates(size, u)
                               \cup {PlusHalf(AbsMin(size, u))}) :
                      size \in INTEGER_SIZES, u \in BOOLEAN } }
    \cup
    { [NoColumn EXCEPT !.name = IdName, !.type = "integer", !.size = "HUGEINT",
                       !.unsigned = p[1], !.autoIncrement = p[2],
                       !.minValue = p[3], !.maxValue = p[3]] :
        p \in BOOLEAN \X BOOLEAN \X {Undef, Num(0)} }

SerialColumns ==
    { [NoColumn EXCEPT !.name = IdName, !.type = "serial", !.size = size] :
        size \in INTEGER_SIZES \cup {"HUGEINT"} }

CodeValues ==
    { [code |-> c, value |-> n] :
        c \in {Num(0), Num(1), Num(255), Num(256), Num(-1)},
        n \in {<<"A">>, <<"B", "_", "1">>, <<"b">>} }

RECURSIVE SeqsUpTo(_, _)
SeqsUpTo(S, n) ==
    IF n = 0 THEN {<<>>}
    ELSE LET shorter == SeqsUpTo(S, n - 1)
         IN  shorter \cup {Append(q, x) : q \in shorter, x \in S}

CodeColumns ==
    { [NoColumn EXCEPT !.name = IdName, !.type = "code", !.values = <<p[1]>>,
                       !.defaultValue = p[2]] :
        p \in SeqsUpTo(CodeValues, MaxValues) \X {Undef, Num(0), Num(9)} }
    \cup {[NoColumn EXCEPT !.name = IdName, !.type = "code"]}

OtherColumns ==
    { [NoColumn EXCEPT !.name = IdName, !.type = "timestamp", !.unsigned = p[1],
                       !.defaultValue = p[2]] :
        p \in BOOLEAN \X {Undef, Num(0), Num(1)} }
    \cup
    { [NoColumn EXCEPT !.name = IdName, !.type = "string", !.maxLength = p[1],
                       !.minLength = p[2], !.defaultValue = p[3]] :
        p \in {Undef, Num(50), PlusHalf(Num(50))}
              \X {Undef, Num(0), Num(1), Num(51)}
              \X {Undef, EmptyLiteralSingle, StrV(<<"'", "x", "'">>)} }
    \cup
    { [NoColumn EXCEPT !.name = IdName, !.type = "binary", !.maxSize = p[1],
                       !.minSize = p[2], !.defaultValue = p[3]] :
        p \in {Undef, Num(16)}
              \X {Undef, Num(0), Num(1), Num(16)}
              \X {Undef, EmptyLiteralDouble, StrV(<<"0", "x", "f", "F">>),
                  StrV(<<"z">>)} }
    \cup
    { [NoColumn EXCEPT !.name = IdName, !.type = "boolean", !.nullable = p[1],
                       !.defaultValue = p[2]] :
        p \in BOOLEAN \X {Undef, Num(0), Num(1), Num(2)} }
    \cup
    { [NoColumn EXCEPT !.name = IdName, !.type = "float"],
      [NoColumn EXCEPT !.name = <<"I", "d">>, !.type = "serial", !.size = "INT"] }

\* A batch of one file that declares one database with one table.
OneTable(table) == <<  <<MkDb(CoreDbName, "fixed", <<table>>)>>  >>

PlainId == [NoColumn EXCEPT !.name = IdName, !.type = "serial", !.size = "INT"]

ColumnBatches ==
    { OneTable(MkTable(TableA, <<c>>)) :
        c \in IntegerColumns \cup SerialColumns \cup CodeColumns \cup OtherColumns }
    \cup
    { OneTable([MkTable(TableA, <<PlainId>>) EXCEPT !.name = <<"T", "a">>]),
      OneTable([MkTable(TableA, <<PlainId>>) EXCEPT !.type = "dynamic"]),
      OneTable([MkTable(TableA, <<PlainId>>) EXCEPT
                  !.indexes = <<PrimaryIndex,
                                [type |-> "fulltext", columns |-> <<IdName>>]>>]),
      OneTable([MkTable(TableA, <<PlainId>>) EXCEPT
                  !.indexes = <<PrimaryIndex,
                                [type |-> "unique", columns |-> <<IdName>>],
                                [type |-> "index", columns |-> <<IdName>>]>>]) }


\* The columns an FK column is pointed at, all named id.
FkTargets ==
    LET int == [NoColumn EXCEPT !.name = IdName, !.type = "integer"]
    IN  { [int EXCEPT !.size = "TINYINT", !.unsigned = TRUE],
          [int EXCEPT !.size = "INT", !.defaultValue = Num(5)],
          [int EXCEPT !.size = "SMALLINT", !.unsigned = TRUE, !.nullable = TRUE],
          [int EXCEPT !.size = "INT", !.unsigned = TRUE, !.autoIncrement = TRUE],
          [int EXCEPT !.size = "TINYINT", !.unsigned = TRUE,
                      !.minValue = Num(10), !.maxValue = Num(20)],
          [int EXCEPT !.size = "MEDIUMINT", !.minValue = Num(-8388609)],
          [NoColumn EXCEPT !.name = IdName, !.type = "serial", !.size = "INT"],
          [NoColumn EXCEPT !.name = IdName, !.type = "serial", !.size = "BIGINT"],
          [NoColumn EXCEPT !.name = IdName, !.type = "code",
                           !.values = << <<[code |-> Num(0), value |-> <<"A">>],
                                           [code |-> Num(1), value |-> <<"B">>]>> >>],
          [NoColumn EXCEPT !.name = IdName, !.type = "string",
                           !.maxLength = Num(50)] }

\* The FK declarations tried: [nullable, defaultValue, ondelete].
FkVariants ==
    { <<FALSE, Undef, Absent>>, <<TRUE, Num(7), "CASCADE">>,
      <<FALSE, PlusHalf(Num(7)), "NO ACTION">>, <<TRUE, Undef, "CASCADE">>,
      <<FALSE, Num(7), Absent>> }

FkPlaces == {"same", "later", "before", "after", "inst", "core"}

FkPaths == {"two", "three", "badDb", "badTable", "badColumn", "one"}

\* The document with an FK column ref of the given variant and path kind
\* and its target placed as said: in the FK's own table before or after it,
\* in another table of the same database declared before or after the FK's
\* table, or in the other database ("inst": the FK is in the core database
\* and the target in the instance database; "core": the reverse).
FkDocument(target, place, path, variant) ==
    LET targetTable == IF place \in {"same", "later"} THEN TableA ELSE TableB
        targetDb == IF place = "inst" THEN InstDbName ELSE CoreDbName
        ref == CASE path = "two" -> <<targetTable, IdName>>
                 [] path = "three" -> <<targetDb, targetTable, IdName>>
                 [] path = "badDb" -> <<BogusName, targetTable, IdName>>
                 [] path = "badTable" -> <<BogusName, IdName>>
                 [] path = "badColumn" -> <<targetTable, BogusName>>
                 [] path = "one" -> <<IdName>>
        fk == [NoColumn EXCEPT !.name = RefName, !.type = "FK", !.column = ref,
                               !.nullable = variant[1],
                               !.defaultValue = variant[2],
                               !.ondelete = variant[3]]
        own == [PlainId EXCEPT !.name = <<"p", "k">>]
        fkTable == MkTable(TableA, <<own, fk>>)
        tgTable == MkTable(TableB, <<target>>)
    IN  CASE place = "same" ->
                 <<MkDb(CoreDbName, "fixed", <<MkTable(TableA, <<target, fk>>)>>)>>
          [] place = "later" ->
                 <<MkDb(CoreDbName, "fixed", <<MkTable(TableA, <<fk, target>>)>>)>>
          [] place = "before" ->
                 <<MkDb(CoreDbName, "fixed", <<tgTable, fkTable>>)>>
          [] place = "after" ->
                 <<MkDb(CoreDbName, "fixed", <<fkTable, tgTable>>)>>
          [] place = "inst" ->
                 <<MkDb(CoreDbName, "fixed", <<fkTable>>),
                   MkDb(InstDbName, "instance", <<tgTable>>)>>
          [] place = "core" ->
                 <<MkDb(CoreDbName, "fixed", <<tgTable>>),
                   MkDb(InstDbName, "instance", <<fkTable>>)>>

FkBatches ==
    { <<FkDocument(target, place, path, variant)>> :
        target \in FkTargets, place \in FkPlaces, path \in FkPaths,
        variant \in FkVariants }

\* The faults put in a table of a batch that varies the shape of the input:
\* an integer column of an unknown size (both emitters throw on it) and a
\* table name outside [a-z_]+ (the SQL emitter throws on it).
FaultKinds == {"size", "name"}

TableNames == <<TableA, TableB, <<"t", "_", "c">>, <<"t", "_", "d">>>>

ShapeTable(k, fault) ==
    LET bad == [NoColumn EXCEPT !.name = <<"n", "o">>, !.type = "integer",
                                !.size = "HUGEINT"]
    IN  CASE fault = "size" -> MkTable(TableNames[k], <<PlainId, bad>>)
          [] fault = "name" -> MkTable(<<"T">> \o TableNames[k], <<PlainId>>)
          [] OTHER -> MkTable(TableNames[k], <<PlainId>>)

\* A batch of nFiles files of nDbs databases of nTables tables each, all
\* valid but for the table at fault.at = <<file, database, table>>, if any.
ShapeBatch(nFiles, nDbs, nTables, fault) ==
    [f \in 1..nFiles |->
        [d \in 1..nDbs |->
            MkDb(IF d = 1 THEN CoreDbName ELSE InstDbName,
                 IF d = 1 THEN "fixed" ELSE "instance",
                 [t \in 1..nTables |->
                     ShapeTable(t, IF fault.at = <<f, d, t>> THEN fault.kind
                                   ELSE "none")])]]

ShapeBatches ==
    UNION { { ShapeBatch(nFiles, nDbs, nTables, fault) :
                fault \in {[at |-> <<0, 0, 0>>, kind |-> "none"]}
                          \cup [at : (1..nFiles) \X (1..nDbs) \X (1..nTables),
                                kind : FaultKinds] } :
            nFiles \in 1..MaxFiles, nDbs \in 0..MaxDbs, nTables \in 1..MaxTables }

Batches == ColumnBatches \cup FkBatches \cup ShapeBatches

\* ------------------------------------------------------------------------
\* The two programs
\* ------------------------------------------------------------------------

VARIABLES
    batch,      \* the input directory: the parsed content of its .json files
    sqlStage,   \* to-sql.js: "file", "db", "table", "write", "done", "aborted"
    sqlFile,    \* to-sql.js: the file, database and table it is at
    sqlDb,
    sqlTbl,
    dbSql,      \* to-sql.js: the statements accumulated for the database
    sqlOut,     \* the output directory: the content of <file>.sql, <<>> if none
    sqlWrites,  \* the calls of outputFileSync so far: <<file, database>>
    sqlErr,     \* the error to-sql.js died of, "none" so far
    luaStage,   \* to-lua.js: "file", "core", "inst", "write", "done", "aborted"
    luaFile,    \* to-lua.js: the file and the table of the database it is at
    luaTbl,
    databases,  \* to-lua.js: the document of the file, as changed in place
    coreDatabase, \* to-lua.js: the index in databases of the one found, or 0
    instDatabase,
    luaCode,    \* to-lua.js: the statements written for the file so far
    luaOut,     \* the output directory: the content of <file>.lua, <<>> if none
    luaErr      \* the error to-lua.js died of, "none" so far

sqlVars == <<sqlStage, sqlFile, sqlDb, sqlTbl, dbSql, sqlOut, sqlWrites, sqlErr>>

luaVars == <<luaStage, luaFile, luaTbl, databases, coreDatabase, instDatabase,
             luaCode, luaOut, luaErr>>

vars == <<batch, sqlVars, luaVars>>

Init ==
    /\ batch \in Batches
    /\ sqlStage = "file"
    /\ sqlFile = 1
    /\ sqlDb = 0
    /\ sqlTbl = 0
    /\ dbSql = <<>>
    /\ sqlOut = [f \in 1..Len(batch) |-> <<>>]
    /\ sqlWrites = <<>>
    /\ sqlErr = "none"
    /\ luaStage = "file"
    /\ luaFile = 1
    /\ luaTbl = 0
    /\ databases = <<>>
    /\ coreDatabase = 0
    /\ instDatabase = 0
    /\ luaCode = <<>>
    /\ luaOut = [f \in 1..Len(batch) |-> <<>>]
    /\ luaErr = "none"

\* --- to-sql.js ---

\* The callback of the loop over the files: the file is read and parsed.
SqlReadFile ==
    /\ sqlStage = "file"
    /\ sqlFile <= Len(batch)
    /\ IF Len(batch[sqlFile]) = 0
       THEN /\ sqlFile' = sqlFile + 1
            /\ UNCHANGED <<sqlStage, sqlDb>>
       ELSE /\ sqlStage' = "db"
            /\ sqlDb' = 1
            /\ UNCHANGED sqlFile
    /\ UNCHANGED <<batch, sqlTbl, dbSql, sqlOut, sqlWrites, sqlErr, luaVars>>

\* The callback of databases.forEach, up to its loop over the tables.
SqlBeginDb ==
    /\ sqlStage = "db"
    /\ LET db == batch[sqlFile][sqlDb]
       IN  /\ dbSql' = <<[stmt |-> "CREATE DATABASE", name |-> db.name],
                         [stmt |-> "USE", name |-> db.name]>>
           /\ sqlStage' = IF Len(db.tables) = 0 THEN "write" ELSE "table"
    /\ sqlTbl' = 1
    /\ UNCHANGED <<batch, sqlFile, sqlDb, sqlOut, sqlWrites, sqlErr, luaVars>>

\* A variant of SqlAppendTable that writes what it has accumulated when
\* processTable throws.
SqlAppendTableFlushing(r) ==
    IF r.err # "none"
    THEN /\ sqlErr' = r.err
         /\ sqlStage' = "aborted"
         /\ sqlOut' = [sqlOut EXCEPT ![sqlFile] = dbSql]
         /\ sqlWrites' = Append(sqlWrites, <<sqlFile, sqlDb>>)
         /\ UNCHANGED <<dbSql, sqlTbl>>
    ELSE /\ dbSql' = dbSql \o r.sql
         /\ sqlTbl' = sqlTbl + 1
         /\ sqlStage' = IF sqlTbl = Len(batch[sqlFile][sqlDb].tables)
                        THEN "write" ELSE "table"
         /\ UNCHANGED <<sqlErr, sqlOut, sqlWrites>>

\* The callback of db.tables.forEach: dbSql += processTable(...), r being
\* what processTable returns or throws.  An error it throws is caught
\* nowhere: the process dies of it.
SqlAppendTable(r) ==
    /\ IF r.err # "none"
       THEN /\ sqlErr' = r.err
            /\ sqlStage' = "aborted"
            /\ UNCHANGED <<dbSql, sqlTbl>>
       ELSE /\ dbSql' = dbSql \o r.sql
            /\ sqlTbl' = sqlTbl + 1
            /\ sqlStage' = IF sqlTbl = Len(batch[sqlFile][sqlDb].tables)
                           THEN "write" ELSE "table"
            /\ UNCHANGED sqlErr
    /\ UNCHANGED <<sqlOut, sqlWrites>>

SqlProcessTable ==
    /\ sqlStage = "table"
    /\ SqlAppendTable(processTable(batch[sqlFile][sqlDb].tables[sqlTbl], sqlDb,
                                   batch[sqlFile]))
    /\ UNCHANGED <<batch, sqlFile, sqlDb, luaVars>>

\* A variant of SqlWriteDb that writes the file only after the last database
\* of the file.
SqlWriteDbAfterLast ==
    /\ sqlStage = "write"
    /\ IF sqlDb < Len(batch[sqlFile])
       THEN /\ sqlDb' = sqlDb + 1
            /\ sqlStage' = "db"
            /\ UNCHANGED <<sqlFile, sqlOut, sqlWrites>>
       ELSE /\ sqlOut' = [sqlOut EXCEPT ![sqlFile] = dbSql]
            /\ sqlWrites' = Append(sqlWrites, <<sqlFile, sqlDb>>)
            /\ sqlFile' = sqlFile + 1
            /\ sqlStage' = "file"
            /\ UNCHANGED sqlDb
    /\ UNCHANGED <<batch, sqlTbl, dbSql, sqlErr, luaVars>>

\* A variant of SqlWriteDb that appends to the file instead of replacing it.
SqlWriteDbAppending ==
    /\ sqlStage = "write"
    /\ sqlOut' = [sqlOut EXCEPT ![sqlFile] = @ \o dbSql]
    /\ sqlWrites' = Append(sqlWrites, <<sqlFile, sqlDb>>)
    /\ IF sqlDb < Len(batch[sqlFile])
       THEN /\ sqlDb' = sqlDb + 1
            /\ sqlStage' = "db"
            /\ UNCHANGED sqlFile
       ELSE /\ sqlFile' = sqlFile + 1
            /\ sqlStage' = "file"
            /\ UNCHANGED sqlDb
    /\ UNCHANGED <<batch, sqlTbl, dbSql, sqlErr, luaVars>>

\* fs.outputFileSync(`${OUT_DIR}/${f}.sql`, dbSql), which ends the callback
\* of databases.forEach: the next database, or the next file, is next.
SqlWriteDb ==
    /\ sqlStage = "write"
    /\ sqlOut' = [sqlOut EXCEPT ![sqlFile] = dbSql]
    /\ sqlWrites' = Append(sqlWrites, <<sqlFile, sqlDb>>)
    /\ IF sqlDb < Len(batch[sqlFile])
       THEN /\ sqlDb' = sqlDb + 1
            /\ sqlStage' = "db"
            /\ UNCHANGED sqlFile
       ELSE /\ sqlFile' = sqlFile + 1
            /\ sqlStage' = "file"
            /\ UNCHANGED sqlDb
    /\ UNCHANGED <<batch, sqlTbl, dbSql, sqlErr, luaVars>>

\* The loop over the files is over: the process exits.
SqlExit ==
    /\ sqlStage = "file"
    /\ sqlFile > Len(batch)
    /\ sqlStage' = "done"
    /\ UNCHANGED <<batch, sqlFile, sqlDb, sqlTbl, dbSql, sqlOut, sqlWrites,
                   sqlErr, luaVars>>

SqlHalted == sqlStage \in {"done", "aborted"}

\* --- to-lua.js ---

\* The stage after the tables of the core database (from = "core") or at
\* the start of a file (from = "file").
LuaNextStage(from, core, inst) ==
    IF from = "file" /\ core # 0 THEN "core"
    ELSE IF inst # 0 THEN "inst"
    ELSE "write"

\* The callback of the loop over the files, up to the definition of
\* writeTable: the file is read, the number of databases checked, the
\* databases found by type and the namespaces of those found written.
LuaReadFile ==
    /\ SqlHalted
    /\ luaStage = "file"
    /\ luaFile <= Len(batch)
    /\ LET dbs == batch[luaFile]
           core == IndexByType(dbs, "fixed")
           inst == IndexByType(dbs, "instance")
       IN  IF Len(dbs) < 1 \/ Len(dbs) > 2
           THEN /\ luaErr' = "SyntaxError"
                /\ luaStage' = "aborted"
                /\ UNCHANGED <<databases, coreDatabase, instDatabase, luaCode>>
           ELSE /\ databases' = dbs
                /\ coreDatabase' = core
                /\ instDatabase' = inst
                /\ luaCode' =
                     <<Stmt("new", Root, <<>>, Undef, <<>>)>>
                     \o (IF core # 0
                         THEN <<Stmt("new", At("core", <<>>, <<>>), <<>>, Undef, <<>>),
                                Stmt("set", At("core", <<>>, <<>>), "_objectType",
                                     Kw("database"), <<>>),
                                Stmt("set", At("core", <<>>, <<>>), "_objectName",
                                     StrV(dbs[core].name), <<>>)>>
                         ELSE <<>>)
                     \o (IF inst # 0
                         THEN <<Stmt("new", At("inst", <<>>, <<>>), <<>>, Undef, <<>>),
                                Stmt("set", At("inst", <<>>, <<>>), "_objectType",
                                     Kw("database"), <<>>)>>
                         ELSE <<>>)
                /\ luaStage' = LuaNextStage("file", core, inst)
                /\ UNCHANGED luaErr
    /\ luaTbl' = 1
    /\ UNCHANGED <<batch, sqlVars, luaFile, luaOut>>

LuaDb == IF luaStage = "core" THEN coreDatabase ELSE instDatabase

\* The callback of coreDatabase.tables.forEach or instDatabase.tables.forEach:
\* writeTable('core', table) or writeTable('inst', table), r being its
\* outcome.  An error it throws is caught nowhere.
LuaAppendTable(r) ==
    IF r.err # "none"
    THEN /\ luaErr' = r.err
         /\ luaStage' = "aborted"
         /\ UNCHANGED <<databases, luaCode, luaTbl>>
    ELSE /\ databases' = r.databases
         /\ luaCode' = luaCode \o r.stmts
         /\ luaTbl' = luaTbl + 1
         /\ UNCHANGED <<luaErr, luaStage>>

LuaWriteTable ==
    /\ luaStage \in {"core", "inst"}
    /\ luaTbl <= Len(databases[LuaDb].tables)
    /\ LuaAppendTable(writeTable(luaStage, luaTbl, coreDatabase, instDatabase,
                                 databases))
    /\ UNCHANGED <<batch, sqlVars, luaFile, coreDatabase, instDatabase, luaOut>>

\* After the tables of a database: setmetatable(Schema.core, ...) or
\* setmetatable(Schema.inst, ...).
LuaSealDb ==
    /\ luaStage \in {"core", "inst"}
    /\ luaTbl > Len(databases[LuaDb].tables)
    /\ luaCode' = Append(luaCode,
                         Stmt("freeze", At(luaStage, <<>>, <<>>), <<>>, Undef, <<>>))
    /\ luaStage' = LuaNextStage(luaStage, coreDatabase,
                                IF luaStage = "core" THEN instDatabase ELSE 0)
    /\ luaTbl' = 1
    /\ UNCHANGED <<batch, sqlVars, luaFile, databases, coreDatabase, instDatabase,
                   luaOut, luaErr>>

\* The end of the callback of the loop over the files: the root is frozen
\* and the file written.
LuaWriteFile ==
    /\ luaStage = "write"
    /\ luaOut' = [luaOut EXCEPT ![luaFile] =
                     luaCode \o <<Stmt("freeze", Root, <<>>, Undef, <<>>),
                                  Stmt("return", Root, <<>>, Undef, <<>>)>>]
    /\ luaFile' = luaFile + 1
    /\ luaStage' = "file"
    /\ UNCHANGED <<batch, sqlVars, luaTbl, databases, coreDatabase, instDatabase,
                   luaCode, luaErr>>

\* The loop over the files is over: the process exits.
LuaExit ==
    /\ SqlHalted
    /\ luaStage = "file"
    /\ luaFile > Len(batch)
    /\ luaStage' = "done"
    /\ UNCHANGED <<batch, sqlVars, luaFile, luaTbl, databases, coreDatabase,
                   instDatabase, luaCode, luaOut, luaErr>>

LuaHalted == luaStage \in {"done", "aborted"}

Next ==
    \/ SqlReadFile
    \/ SqlBeginDb
    \/ SqlProcessTable
    \/ SqlWriteDb
    \/ SqlExit
    \/ LuaReadFile
    \/ LuaWriteTable
    \/ LuaSealDb
    \/ LuaWriteFile
    \/ LuaExit

Spec == Init /\ [][Next]_vars


\* ------------------------------------------------------------------------
\* What the two programs have emitted, related to the declarations
\* ------------------------------------------------------------------------

Declared(f, d, t, c) == batch[f][d].tables[t].columns[c]

\* The database whose statements <file f>.sql holds: the one written last.
WrittenDb(f) ==
    LET last == CHOOSE i \in 1..Len(sqlWrites) :
                    /\ sqlWrites[i][1] = f
                    /\ \A j \in (i + 1)..Len(sqlWrites) : sqlWrites[j][1] # f
    IN  sqlWrites[last][2]

\* The columns in the .sql files: [f, d, t, c, clause], column c of table t
\* of database d of file f, with its clause.
SqlEmitted ==
    UNION { LET d == WrittenDb(f)
            IN  UNION { { [f |-> f, d |-> d, t |-> i - 2, c |-> c,
                           clause |-> sqlOut[f][i].cols[c].clause] :
                          c \in 1..Len(sqlOut[f][i].cols) } :
                        i \in 3..Len(sqlOut[f]) } :
            f \in {g \in 1..Len(batch) : sqlOut[g] # <<>>} }

\* The database of a file that the descriptor calls core or inst.
LuaDbOf(f, db) == IndexByType(batch[f], IF db = "core" THEN "fixed" ELSE "instance")

\* The column objects in the .lua files: [f, d, t, c, obj].
LuaEmitted ==
    UNION { { LET at == luaOut[f][i].at
                  d == LuaDbOf(f, at.db)
                  t == IndexByName(batch[f][d].tables, at.table)
                  c == IndexByName(batch[f][d].tables[t].columns, at.column)
              IN  [f |-> f, d |-> d, t |-> t, c |-> c, obj |-> luaOut[f][i].obj] :
              i \in {j \in 1..Len(luaOut[f]) : luaOut[f][j].op = "column"} } :
            f \in 1..Len(batch) }

\* The bounds the specification gives a declared integer or serial column:
\* the explicit ones, else 1 for a serial or auto-increment minimum, else
\* the absolute ones of the size and signedness.
SpecMin(col) ==
    IF col.type = "serial" THEN Num(1)
    ELSE IF Defined(col.minValue) THEN col.minValue
    ELSE IF col.autoIncrement THEN Num(1)
    ELSE AbsMin(col.size, col.unsigned)

SpecMax(col) ==
    IF col.type = "serial" THEN INTEGER_MAX_UNSIGNED[col.size]
    ELSE IF Defined(col.maxValue) THEN col.maxValue
    ELSE AbsMax(col.size, col.unsigned)

\* The target of an FK declaration of database d of file f as the
\* specification resolves it: table.column in the declaring database,
\* database.table.column in the database of that name.  <<>> when the
\* database, the table or the column does not exist, else <<column>>.
SpecFkTarget(f, d, col) ==
    LET path == col.column
        td == IF Len(path) = 3 THEN IndexByName(batch[f], path[1])
              ELSE IF Len(path) = 2 THEN d ELSE 0
        tname == IF Len(path) = 3 THEN path[2] ELSE path[1]
        cname == path[Len(path)]
    IN  IF td = 0 THEN <<>>
        ELSE LET tt == IndexByName(batch[f][td].tables, tname)
             IN  IF tt = 0 THEN <<>>
                 ELSE LET tc == IndexByName(batch[f][td].tables[tt].columns, cname)
                      IN  IF tc = 0 THEN <<>>
                          ELSE <<batch[f][td].tables[tt].columns[tc]>>


\* ------------------------------------------------------------------------
\* C1
\* ------------------------------------------------------------------------

\* C1: the two emitters make the same accept/reject decision on every
\* document: once both have run over a batch of one document, either both
\* ended without an error or both died of one; and a declared integer
\* column that both emitted has, in the descriptor, the bounds the SQL
\* emitter validated it against (its explicit bounds, else the absolute
\* ones, 1 for the minimum of an auto-increment column).
C1_EmittersAgree ==
    /\ (SqlHalted /\ LuaHalted /\ Len(batch) = 1)
           => ((sqlErr = "none") <=> (luaErr = "none"))
    /\ \A e \in LuaEmitted :
           (/\ Declared(e.f, e.d, e.t, e.c).type \in {"integer", "serial"}
            /\ \E q \in SqlEmitted : <<q.f, q.d, q.t, q.c>> = <<e.f, e.d, e.t, e.c>>)
           => /\ e.obj.minValue = SpecMin(Declared(e.f, e.d, e.t, e.c))
              /\ e.obj.maxValue = SpecMax(Declared(e.f, e.d, e.t, e.c))

\* ------------------------------------------------------------------------
\* C2
\* ------------------------------------------------------------------------

\* The pairs of section 4.2 of the specification, by size: the unsigned
\* maximum, the signed minimum and the signed maximum (the unsigned minimum
\* is 0; no signed minimum is given for BIGINT).
DocumentedUnsignedMax ==
    [TINYINT |-> Num(255), SMALLINT |-> Num(65535), MEDIUMINT |-> Num(16777215),
     INT |-> Big(429, 4967295), BIGINT |-> Big(9999999, 9999999)]

DocumentedSignedMin ==
    [TINYINT |-> Num(-128), SMALLINT |-> Num(-32768), MEDIUMINT |-> Num(-8388608),
     INT |-> Pred(Neg(Big(214, 7483647)))]

DocumentedSignedMax ==
    [TINYINT |-> Num(127), SMALLINT |-> Num(32767), MEDIUMINT |-> Num(8388607),
     INT |-> Big(214, 7483647), BIGINT |-> Big(9999999, 9999999)]

\* C2: a declared integer column of a known size that the descriptor
\* emitter emits has, for each bound it leaves out, the documented default:
\* maximum the documented maximum of its size and signedness; minimum 1 if
\* it is auto-increment whatever its signedness, else 0 if unsigned, else
\* the documented signed minimum.  The defaults are the absolute bounds of
\* the SQL emitter's tables.
C2_DefaultBounds ==
    \A e \in LuaEmitted :
        LET col == Declared(e.f, e.d, e.t, e.c)
        IN  (col.type = "integer" /\ col.size \in INTEGER_SIZES)
            => /\ ~Defined(col.maxValue)
                   => /\ e.obj.maxValue = IF col.unsigned
                                          THEN DocumentedUnsignedMax[col.size]
                                          ELSE DocumentedSignedMax[col.size]
                      /\ e.obj.maxValue = AbsMax(col.size, col.unsigned)
               /\ (~Defined(col.minValue) /\ col.autoIncrement)
                   => e.obj.minValue = Num(1)
               /\ (~Defined(col.minValue) /\ ~col.autoIncrement)
                   => /\ col.unsigned => e.obj.minValue = Num(0)
                      /\ (~col.unsigned /\ col.size \in DOMAIN DocumentedSignedMin)
                             => e.obj.minValue = DocumentedSignedMin[col.size]
                      /\ e.obj.minValue = AbsMin(col.size, col.unsigned)

\* C2 witness: a signed INT column and a signed auto-increment column with
\* no explicit bounds have been emitted in descriptors.
C2_Witness ==
    \E e \in LuaEmitted :
        LET col == Declared(e.f, e.d, e.t, e.c)
        IN  /\ col.type = "integer"
            /\ col.size = "INT"
            /\ ~col.unsigned
            /\ ~Defined(col.minValue)
            /\ ~Defined(col.maxValue)
            /\ e.obj.maxValue = Big(214, 7483647)
            /\ (col.autoIncrement => e.obj.minValue = Num(1))
            /\ col.autoIncrement

\* ------------------------------------------------------------------------
\* C3
\* ------------------------------------------------------------------------

\* The clause the specification gives an FK column whose target is tg.
SpecFkClause(col, tg) ==
    <<Kw(tg.size)>>
    \o (IF tg.type = "serial" \/ tg.unsigned THEN <<Kw("UNSIGNED")>> ELSE <<>>)
    \o <<NullTok(col.nullable)>>
    \o DefaultToks(col.defaultValue)

\* Whether column col of database d of file f is an FK declaration whose
\* target exists and is an integer or serial column of a known size that is
\* not nullable.
IsResolvedFk(f, d, col) ==
    /\ col.type = "FK"
    /\ SpecFkTarget(f, d, col) # <<>>
    /\ SpecFkTarget(f, d, col)[1].type \in {"integer", "serial"}
    /\ SpecFkTarget(f, d, col)[1].size \in INTEGER_SIZES
    /\ ~SpecFkTarget(f, d, col)[1].nullable

\* C3: an emitted FK column has the type and the bounds of its target and
\* the name, nullable and defaultValue of its own declaration, in the
\* descriptor object and in the SQL clause (which has no AUTO_INCREMENT and
\* no default but the FK's own).
C3_FkKeepsOwnFields ==
    /\ \A e \in LuaEmitted :
           LET col == Declared(e.f, e.d, e.t, e.c)
               tg == SpecFkTarget(e.f, e.d, col)[1]
           IN  IsResolvedFk(e.f, e.d, col)
               => /\ e.obj.type = tg.type
                  /\ e.obj.minValue = SpecMin(tg)
                  /\ e.obj.maxValue = SpecMax(tg)
                  /\ e.obj.name = LuaString(col.name)
                  /\ e.obj.nullable = col.nullable
                  /\ e.obj.defaultValue = LuaScalar(col.defaultValue)
    /\ \A q \in SqlEmitted :
           LET col == Declared(q.f, q.d, q.t, q.c)
           IN  IsResolvedFk(q.f, q.d, col)
               => q.clause = SpecFkClause(col, SpecFkTarget(q.f, q.d, col)[1])

\* ------------------------------------------------------------------------
\* C4
\* ------------------------------------------------------------------------

\* C4: no FK column is emitted, by either emitter, whose target does not
\* exist (table.column looked up in the declaring database,
\* database.table.column in the database of that name) or is nullable.
C4_NoBadFkEmitted ==
    /\ \A e \in LuaEmitted :
           LET col == Declared(e.f, e.d, e.t, e.c)
           IN  col.type = "FK"
               => /\ SpecFkTarget(e.f, e.d, col) # <<>>
                  /\ ~SpecFkTarget(e.f, e.d, col)[1].nullable
    /\ \A q \in SqlEmitted :
           LET col == Declared(q.f, q.d, q.t, q.c)
           IN  col.type = "FK"
               => /\ SpecFkTarget(q.f, q.d, col) # <<>>
                  /\ ~SpecFkTarget(q.f, q.d, col)[1].nullable

\* ------------------------------------------------------------------------
\* C5
\* ------------------------------------------------------------------------

\* The statements of database d of file f when all its tables are valid.
WholeDbSql(f, d) ==
    <<[stmt |-> "CREATE DATABASE", name |-> batch[f][d].name],
      [stmt |-> "USE", name |-> batch[f][d].name]>>
    \o ConcatAll([t \in 1..Len(batch[f][d].tables) |->
                     processTable(batch[f][d].tables[t], d, batch[f]).sql])

\* Whether every table of database d of file f passes processTable.
SqlValidDb(f, d) ==
    \A t \in 1..Len(batch[f][d].tables) :
        processTable(batch[f][d].tables[t], d, batch[f]).err = "none"

\* C5: SQL emission is all-or-nothing per database.  Every write is the
\* write of a database all of whose tables passed; a .sql file holds the
\* whole of the database written to it last, never a part; and when the run
\* dies in a database, no write has been made for that database, whatever
\* had been accumulated for its earlier tables.
C5_AllOrNothing ==
    /\ \A i \in 1..Len(sqlWrites) : SqlValidDb(sqlWrites[i][1], sqlWrites[i][2])
    /\ \A f \in 1..Len(batch) :
           sqlOut[f] # <<>>
           => /\ \E i \in 1..Len(sqlWrites) : sqlWrites[i][1] = f
              /\ sqlOut[f] = WholeDbSql(f, WrittenDb(f))
    /\ sqlStage = "aborted"
           => /\ ~SqlValidDb(sqlFile, sqlDb)
              /\ \A i \in 1..Len(sqlWrites) : sqlWrites[i] # <<sqlFile, sqlDb>>

\* C5 witness: the run died at the second table of a database, with the
\* statement of the first table accumulated, and nothing was written for
\* that database.
C5_Witness ==
    /\ sqlStage = "aborted"
    /\ sqlTbl = 2
    /\ Len(dbSql) = 3
    /\ dbSql[3].stmt = "CREATE TABLE"
    /\ sqlOut[sqlFile] = <<>>
    /\ \A i \in 1..Len(sqlWrites) : sqlWrites[i] # <<sqlFile, sqlDb>>

\* ------------------------------------------------------------------------
\* C6
\* ------------------------------------------------------------------------

\* A file that has one or two databases all of whose tables pass every rule
\* of processTable.
ValidFile(f) ==
    /\ Len(batch[f]) \in {1, 2}
    /\ \A d \in 1..Len(batch[f]) : SqlValidDb(f, d)

\* C6: a file that fails leaves the other files of the batch unaffected:
\* once an emitter has ended, every valid file of the batch has its output,
\* wherever it stands relative to the file that failed.
C6_OtherFilesUnaffected ==
    /\ SqlHalted => \A f \in 1..Len(batch) : ValidFile(f) => sqlOut[f] # <<>>
    /\ LuaHalted => \A f \in 1..Len(batch) : ValidFile(f) => luaOut[f] # <<>>

\* ------------------------------------------------------------------------
\* C7
\* ------------------------------------------------------------------------

\* The values of a code column all have a safe non-negative integer code
\* and a name of the required pattern.
WellFormedValues(list) ==
    \A i \in 1..Len(list) :
        /\ IsSafeInteger(list[i].code)
        /\ ~JsLt(list[i].code, Num(0))
        /\ CodeNameOk(list[i].value)

DistinctCodes(list) ==
    \A i, j \in 1..Len(list) : i # j => list[i].code # list[j].code

DistinctNames(list) ==
    \A i, j \in 1..Len(list) : i # j => list[i].value # list[j].value

HighestAtMost255(list) == \A i \in 1..Len(list) : NumLe(list[i].code, Num(255))

DefaultDeclared(col, list) ==
    Defined(col.defaultValue) => \E i \in 1..Len(list) : list[i].code = col.defaultValue

\* The code columns declared in the batch that have a values array.
DeclaredCodeColumns ==
    { col \in UNION { UNION { UNION { { batch[f][d].tables[t].columns[c] :
                                          c \in 1..Len(batch[f][d].tables[t].columns) } :
                                      t \in 1..Len(batch[f][d].tables) } :
                              d \in 1..Len(batch[f]) } :
                      f \in 1..Len(batch) } :
        col.type = "code" /\ col.values # <<>> }

\* C7: the SQL emitter accepts a code column only if it has a value, its
\* codes are distinct, its names are distinct and no code exceeds 255.  Of
\* well-formed values, a duplicate code or name is a ReferenceError, no
\* duplicate and a code of 256 or more a RangeError, and no duplicate and a
\* highest code up to 255 is accepted unless the default is not a declared
\* code, which is a ReferenceError.  A code column in a .sql file satisfies
\* the conditions, and a run that dies on a table whose one column is a
\* code column dies of the error of that column.
C7_CodeColumnRules ==
    /\ \A col \in DeclaredCodeColumns :
           LET list == col.values[1]
               err == processCodeColumn(col).err
           IN  /\ err = "none"
                   => /\ Len(list) >= 1
                      /\ DistinctCodes(list)
                      /\ DistinctNames(list)
                      /\ HighestAtMost255(list)
                      /\ DefaultDeclared(col, list)
               /\ Len(list) = 0 => err # "none"
               /\ (WellFormedValues(list) /\ Len(list) >= 1)
                   => /\ ~(DistinctCodes(list) /\ DistinctNames(list))
                          => err = "ReferenceError"
                      /\ (DistinctCodes(list) /\ DistinctNames(list)
                            /\ ~HighestAtMost255(list))
                          => err = "RangeError"
                      /\ (DistinctCodes(list) /\ DistinctNames(list)
                            /\ HighestAtMost255(list))
                          => err = IF DefaultDeclared(col, list) THEN "none"
                                   ELSE "ReferenceError"
    /\ \A q \in SqlEmitted :
           LET col == Declared(q.f, q.d, q.t, q.c)
           IN  col.type = "code"
               => /\ col.values # <<>>
                  /\ Len(col.values[1]) >= 1
                  /\ DistinctCodes(col.values[1])
                  /\ DistinctNames(col.values[1])
                  /\ HighestAtMost255(col.values[1])
    /\ (sqlStage = "aborted"
          /\ Len(batch[sqlFile][sqlDb].tables[sqlTbl].columns) = 1
          /\ batch[sqlFile][sqlDb].tables[sqlTbl].columns[1].type = "code"
          /\ batch[sqlFile][sqlDb].tables[sqlTbl].columns[1].values # <<>>
          /\ TableNameOk(batch[sqlFile][sqlDb].tables[sqlTbl].name))
           => LET col == batch[sqlFile][sqlDb].tables[sqlTbl].columns[1]
              IN  /\ WellFormedValues(col.values[1])
                     /\ Len(col.values[1]) >= 1
                     /\ ~(DistinctCodes(col.values[1]) /\ DistinctNames(col.values[1]))
                      => sqlErr = "ReferenceError"
                  /\ WellFormedValues(col.values[1])
                     /\ DistinctCodes(col.values[1])
                     /\ DistinctNames(col.values[1])
                     /\ ~HighestAtMost255(col.values[1])
                      => sqlErr = "RangeError"
                  /\ HighestAtMost255(col.values[1])
                     /\ WellFormedValues(col.values[1])
                     /\ DistinctCodes(col.values[1])
                     /\ DistinctNames(col.values[1])
                     /\ Len(col.values[1]) >= 1
                      => sqlErr = "ReferenceError" /\ ~DefaultDeclared(col, col.values[1])

\* C7 witness: a code column whose highest code is 255 is in a .sql file,
\* in a batch where the run has ended.
C7_Witness ==
    /\ sqlStage = "done"
    /\ \E q \in SqlEmitted :
           LET col == Declared(q.f, q.d, q.t, q.c)
           IN  /\ col.type = "code"
               /\ Len(col.values[1]) = 2
               /\ HighestCode(col.values[1]) = Num(255)
               /\ q.clause[1] = Kw("TINYINT")

\* ------------------------------------------------------------------------
\* C8
\* ------------------------------------------------------------------------

\* Whether v, if given, lies within the absolute range of the column.
WithinAbsolute(col, v) ==
    Defined(v) => /\ NumLe(AbsMin(col.size, col.unsigned), v)
                  /\ NumLe(v, AbsMax(col.size, col.unsigned))

\* C8: every integer column that is emitted, in a .sql file or in a
\* descriptor, has its explicit minValue and its explicit maxValue within
\* the absolute range of its size and signedness.
C8_ExplicitBoundsWithinAbsolute ==
    /\ \A q \in SqlEmitted :
           LET col == Declared(q.f, q.d, q.t, q.c)
           IN  col.type = "integer"
               => WithinAbsolute(col, col.minValue) /\ WithinAbsolute(col, col.maxValue)
    /\ \A e \in LuaEmitted :
           LET col == Declared(e.f, e.d, e.t, e.c)
           IN  (col.type = "integer" /\ col.size \in INTEGER_SIZES)
               => WithinAbsolute(col, col.minValue) /\ WithinAbsolute(col, col.maxValue)

\* ------------------------------------------------------------------------
\* C9
\* ------------------------------------------------------------------------

\* C9: every integer column in a .sql file that has a default has a safe
\* integer default between its resolved bounds: its explicit minValue and
\* maxValue where given, the absolute bounds otherwise.
C9_DefaultWithinResolved ==
    \A q \in SqlEmitted :
        LET col == Declared(q.f, q.d, q.t, q.c)
        IN  (col.type = "integer" /\ Defined(col.defaultValue))
            => /\ IsSafeInteger(col.defaultValue)
               /\ NumLe(IF Defined(col.minValue) THEN col.minValue
                        ELSE AbsMin(col.size, col.unsigned),
                        col.defaultValue)
               /\ NumLe(col.defaultValue,
                        IF Defined(col.maxValue) THEN col.maxValue
                        ELSE AbsMax(col.size, col.unsigned))

\* ------------------------------------------------------------------------
\* C10
\* ------------------------------------------------------------------------

\* Whether the statements code set key of the object at at.
SetsKey(code, at, key) ==
    \E i \in 1..Len(code) : code[i].op = "set" /\ code[i].at = at /\ code[i].key = key

\* Whether the statements code set key of the object at at to the keyword.
SetsKeyTo(code, at, key, word) ==
    \E i \in 1..Len(code) :
        code[i].op = "set" /\ code[i].at = at /\ code[i].key = key
        /\ code[i].val = Kw(word)

Freezes(code, at) ==
    \E i \in 1..Len(code) : code[i].op = "freeze" /\ code[i].at = at

\* C10: in every descriptor written, every database and table object has
\* its _objectType and a name, every column object has _objectType
\* "column", a name and a _parentTable, and the root, every database, every
\* table and every column is frozen.
C10_DescriptorObjects ==
    \A f \in 1..Len(batch) :
        \A i \in 1..Len(luaOut[f]) :
            LET st == luaOut[f][i]
            IN  /\ (st.op = "new" /\ st.at = Root) => Freezes(luaOut[f], Root)
                /\ (st.op = "new" /\ st.at.db # "Schema" /\ st.at.table = <<>>)
                    => /\ SetsKeyTo(luaOut[f], st.at, "_objectType", "database")
                       /\ SetsKey(luaOut[f], st.at, "_objectName")
                       /\ Freezes(luaOut[f], st.at)
                /\ (st.op = "new" /\ st.at.table # <<>>)
                    => /\ SetsKeyTo(luaOut[f], st.at, "_objectType", "table")
                       /\ SetsKey(luaOut[f], st.at, "_objectName")
                       /\ Freezes(luaOut[f], st.at)
                /\ st.op = "column"
                    => /\ st.obj.objectType = "column"
                       /\ st.obj.name = LuaString(st.at.column)
                       /\ \E j \in 1..Len(luaOut[f]) :
                              luaOut[f][j].op = "parent" /\ luaOut[f][j].at = st.at
                       /\ Freezes(luaOut[f], st.at)

\* ------------------------------------------------------------------------
\* C11
\* ------------------------------------------------------------------------

\* Whether column col of database d of file f is an FK declaration, with no
\* default or a safe integer one, whose target exists and is a code column
\* that is not nullable and passes the rules of a code column.
IsCodeFk(f, d, col) ==
    /\ col.type = "FK"
    /\ ColumnNameOk(col.name)
    /\ Defined(col.defaultValue) => IsSafeInteger(col.defaultValue)
    /\ SpecFkTarget(f, d, col) # <<>>
    /\ SpecFkTarget(f, d, col)[1].type = "code"
    /\ ~SpecFkTarget(f, d, col)[1].nullable
    /\ processCodeColumn(SpecFkTarget(f, d, col)[1]).err = "none"

\* Whether the statements code give the object at at a code domain: a
\* NAME = code or [code] = NAME entry or a codes set.
HasCodeDomain(code, at) ==
    \E i \in 1..Len(code) :
        code[i].op \in {"name", "code", "codes"} /\ code[i].at = at

\* C11: an FK column whose target is a valid code column is emitted, not
\* rejected, as a plain bounded integer: the SQL emitter does not die on a
\* table whose other columns all pass, and the descriptor object of such
\* a column has no values, no code domain, and both numeric bounds.
C11_FkToCodeIsBoundedInteger ==
    /\ sqlStage = "aborted"
           => LET table == batch[sqlFile][sqlDb].tables[sqlTbl]
              IN  ~ /\ TableNameOk(table.name)
                    /\ \E c \in 1..Len(table.columns) :
                           /\ IsCodeFk(sqlFile, sqlDb, table.columns[c])
                           /\ \A k \in 1..Len(table.columns) :
                                  k # c => processColumn(table.columns[k], sqlDb,
                                                         batch[sqlFile]).err = "none"
    /\ \A f \in 1..Len(batch) :
           \A i \in 1..Len(luaOut[f]) :
               (/\ luaOut[f][i].op = "column"
                /\ LuaDbOf(f, luaOut[f][i].at.db) # 0
                /\ \E e \in LuaEmitted :
                       /\ e.f = f
                       /\ e.obj = luaOut[f][i].obj
                       /\ batch[f][e.d].tables[e.t].name = luaOut[f][i].at.table
                       /\ IsCodeFk(f, e.d, Declared(f, e.d, e.t, e.c)))
               => /\ luaOut[f][i].obj.values = <<>>
                  /\ ~HasCodeDomain(luaOut[f], luaOut[f][i].at)
                  /\ Defined(luaOut[f][i].obj.minValue)
                  /\ Defined(luaOut[f][i].obj.maxValue)

\* ------------------------------------------------------------------------
\* C12
\* ------------------------------------------------------------------------

\* Whether the pair <<file, database>> a comes before the pair b.
PairBefore(a, b) == a[1] < b[1] \/ (a[1] = b[1] /\ a[2] < b[2])

\* C12: the SQL emitter processes and writes the databases of a file one
\* after the other in the order declared: the writes are in the order of
\* the files and databases; while it is at a database of a file, every
\* database declared before it in the file has been written; and when it
\* dies in a database that is not the first, the file holds the whole of
\* the database before it.
C12_FirstDbWrittenBeforeSecond ==
    /\ \A i, j \in 1..Len(sqlWrites) : i < j => PairBefore(sqlWrites[i], sqlWrites[j])
    /\ sqlStage \in {"db", "table", "write", "aborted"}
           => /\ \A d \in 1..(sqlDb - 1) :
                      \E i \in 1..Len(sqlWrites) : sqlWrites[i] = <<sqlFile, d>>
              /\ \A i \in 1..Len(sqlWrites) :
                      sqlWrites[i][1] = sqlFile => sqlWrites[i][2] < sqlDb
    /\ (sqlStage = "aborted" /\ sqlDb >= 2)
           => sqlOut[sqlFile] = WholeDbSql(sqlFile, sqlDb - 1)

\* C12 witness: the run died in the second database of a file and the file
\* holds the statements of the first.
C12_Witness ==
    /\ sqlStage = "aborted"
    /\ sqlDb = 2
    /\ sqlOut[sqlFile] # <<>>
    /\ sqlOut[sqlFile][1].name = batch[sqlFile][1].name
    /\ sqlWrites[Len(sqlWrites)] = <<sqlFile, 1>>

\* ------------------------------------------------------------------------
\* C13
\* ------------------------------------------------------------------------

\* C13: every database of a file is written to the one .sql file of the
\* file, each write replacing the content: once the SQL emitter is past a
\* file of two or more databases, the file holds the statements of the
\* database declared last and no other: one CREATE DATABASE and one USE,
\* both of the last database, and one CREATE TABLE for each of its tables.
C13_FileHoldsLastDbOnly ==
    \A f \in 1..Len(batch) :
        (Len(batch[f]) >= 2 /\ sqlErr = "none" /\ (sqlFile > f \/ sqlStage = "done"))
        => /\ sqlOut[f] = WholeDbSql(f, Len(batch[f]))
           /\ Len(sqlOut[f]) = 2 + Len(batch[f][Len(batch[f])].tables)
           /\ \A i \in 1..Len(sqlOut[f]) :
                  /\ sqlOut[f][i].stmt = "CREATE DATABASE" <=> i = 1
                  /\ sqlOut[f][i].stmt = "USE" <=> i = 2
                  /\ i <= 2 => sqlOut[f][i].name = batch[f][Len(batch[f])].name
                  /\ i > 2 => sqlOut[f][i].name
                                  = batch[f][Len(batch[f])].tables[i - 2].name

\* C13 witness: a file of two databases of different names has been
\* compiled, both databases written, and the file starts with the CREATE
\* DATABASE of the second.
C13_Witness ==
    /\ sqlStage = "done"
    /\ \E f \in 1..Len(batch) :
           /\ Len(batch[f]) = 2
           /\ batch[f][1].name # batch[f][2].name
           /\ \E i, j \in 1..Len(sqlWrites) :
                  sqlWrites[i] = <<f, 1>> /\ sqlWrites[j] = <<f, 2>>
           /\ sqlOut[f][1] = [stmt |-> "CREATE DATABASE", name |-> batch[f][2].name]

=============================================================================
